---- MODULE Spec2Model ----
(***************************************************************************)
(* Model of the dynlink handle / symbol layer (dynlink-posix,              *)
(* dynlink-win32 and the dynlink facade) running against the OS loader.    *)
(*                                                                         *)
(* The crate code is translated operation by operation.  The OS loader     *)
(* primitives it calls (dlopen, dlsym, dlclose, dlerror, LoadLibraryExW,   *)
(* GetProcAddress, FreeLibrary, GetLastError) are external: they are       *)
(* modelled by their documented contract, with nondeterminism where the    *)
(* contract leaves the outcome open.                                       *)
(***************************************************************************)
EXTENDS Integers, Sequences, FiniteSets, Bags, TLC

\* ------------------------------------------------------------------ bounds
MaxHandles == 2      \* handles ever opened successfully in one run
MaxSyms    == 2      \* symbol values alive at the same time
MaxLen     == 3      \* longest path / symbol name, in bytes
MaxByte    == 1      \* bytes are 0..MaxByte, 0 is the nul terminator
MaxThreads == 2      \* threads sharing a handle
MaxWide    == 2      \* u16 units are 0..MaxWide, 0 is the nul terminator
InlineCap  == 2      \* bytes a SmallVec buffer holds inline: the estimated
                     \* maximum length (4096 in the source) on the scale of
                     \* MaxLen, so that longer names occur

VARIABLES
    platform,   \* build target: "posix" (non-FreeBSD POSIX), "freebsd", "windows"
    crate,      \* the crate the program links against: "dynlink-posix",
                \* "dynlink-win32", or the facade "dynlink"
    os,         \* OS loader state: refcount per library, pending dlerror,
                \* last-error code, whether a successful dl* call keeps a
                \* pending diagnostic
    handles,    \* handle objects: [st, native]
    syms,       \* the symbol values alive, a bag of [addr, owner]
    closes,     \* per handle object: unload calls made on its native value
    last,       \* the last operation: inputs, loader calls, result
    kept,       \* an error value the caller still holds, with the text of
                \* the diagnostic of the call that failed
    errbuf,     \* the loader's diagnostic buffer, as an earlier pointer
                \* returned by dlerror sees it now
    thr,        \* threads sharing the handles: whether dlerror's diagnostic
                \* is per thread, and each thread's place in lookupc
    wc          \* the wide C string at hand: the slice given, the
                \* constructor applied, its result, and the slice the last
                \* conversion returned

vars ==
    <<platform, crate, os, handles, syms, closes, last, kept, errbuf, thr, wc>>

\* the state only the runs with a kept error, with threads or with wide
\* strings change
aux == <<kept, errbuf, thr, wc>>

\* ------------------------------------------------------------ value domains
NULL == 0

Bytes == 0..MaxByte

\* all byte strings of length 0..n
ByteStrs(n) == UNION {[1..k -> Bytes] : k \in 0..n}

\* byte strings without a nul
Texts(n) == UNION {[1..k -> 1..MaxByte] : k \in 0..n}

HandleIds == 1..MaxHandles

\* ----------------------------------------------------- the loader's world
\* Two libraries exist on disk; the native handle of a library is its id.
Libs == {1, 2}

\* path text -> library, NULL when no such file
LibAt(p) ==
    IF p = <<1>> THEN 1 ELSE IF p = <<1, 1>> THEN 2 ELSE NULL

\* Symbol tables.  Library 1 exports "sum_of" (<<1>>) at address 1 and a
\* symbol (<<1, 1>>) whose value is the null address; library 2 exports
\* <<1>> at address 2.
HasSym(lib, n) ==
    \/ lib = 1 /\ n \in {<<1>>, <<1, 1>>}
    \/ lib = 2 /\ n = <<1>>

SymAddr(lib, n) ==
    IF lib = 1 /\ n = <<1>> THEN 1
    ELSE IF lib = 2 /\ n = <<1>> THEN 2
    ELSE NULL

\* Diagnostic buffers owned by the loader; bytes after the terminator are
\* leftovers of the buffer.
DlopenDiag  == <<1, 0>>
DlsymDiag   == <<2, 1, 0, 1>>
DlcloseDiag == <<2, 0, 2>>

\* a diagnostic pointer: buf = <<>> is the null pointer; cur tells whether
\* the diagnostic was produced during the operation now running
NoDiag == [buf |-> <<>>, cur |-> FALSE]

IsNull(ptr) == ptr.buf = <<>>

\* last-error codes a failing Windows call may leave
WinCodes == {0, 126, 127}

\* ------------------------------------------------------------- C strings
\* index of the first x in data, 0 when there is none
memchr(x, data) ==
    IF \E i \in 1..Len(data) : data[i] = x
    THEN CHOOSE i \in 1..Len(data) :
            data[i] = x /\ \A j \in 1..(i - 1) : data[j] # x
    ELSE 0

\* what the OS reads through a char pointer: the bytes before the first nul
CStrRead(buf) == SubSeq(buf, 1, memchr(0, buf) - 1)

\* CStr::from_ptr: the bytes up to and including the first nul
CStrFromPtr(buf) == SubSeq(buf, 1, memchr(0, buf))

\* CStr values: nul-terminated, no interior nul
CStrs == {t \o <<0>> : t \in Texts(MaxLen)}

\* ----------------------------------------------------------- POSIX loader
\* dlerror: returns the pending diagnostic and clears it
dlerror(o) == [ret |-> o.dlerr, os |-> [o EXCEPT !.dlerr = NoDiag]]

\* a successful call leaves a pending diagnostic alone or clears it; which
\* one is a property of the dlfcn implementation (o.keeps)
AfterSuccess(o) == IF o.keeps THEN o.dlerr ELSE NoDiag

\* dlopen: maps the library and counts the reference, or fails with a
\* diagnostic
dlopen(o, path, options) ==
    LET lib == LibAt(CStrRead(path)) IN
    IF lib # NULL
    THEN [ret |-> lib,
          os  |-> [o EXCEPT !.refcount[lib] = @ + 1,
                            !.dlerr = AfterSuccess(o)]]
    ELSE [ret |-> NULL,
          os  |-> [o EXCEPT !.dlerr = [buf |-> DlopenDiag, cur |-> TRUE]]]

\* dlclose: drops one reference; fails on a handle that is not open or
\* when the library could not be closed
dlclose(o, handle, fails) ==
    IF handle \in Libs /\ o.refcount[handle] > 0 /\ ~fails
    THEN [ret |-> 0,
          os  |-> [o EXCEPT !.refcount[handle] = @ - 1,
                            !.dlerr = AfterSuccess(o)]]
    ELSE [ret |-> 1,
          os  |-> [o EXCEPT !.dlerr = [buf |-> DlcloseDiag, cur |-> TRUE]]]

\* dlsym: the address of the symbol (which may be the null address), or
\* null with a diagnostic when the handle is not open or the name is not
\* in the library's symbol table
dlsym(o, handle, symbol) ==
    LET n == CStrRead(symbol) IN
    IF handle \in Libs /\ o.refcount[handle] > 0 /\ HasSym(handle, n)
    THEN [ret |-> SymAddr(handle, n),
          os  |-> [o EXCEPT !.dlerr = AfterSuccess(o)]]
    ELSE [ret |-> NULL,
          os  |-> [o EXCEPT !.dlerr = [buf |-> DlsymDiag, cur |-> TRUE]]]

\* ----------------------------------------------------------- Win32 loader
\* LoadLibraryExW: maps the module and counts the reference, or returns
\* null and leaves last-error code `code`
LoadLibraryExW(o, path, options, code) ==
    LET lib == LibAt(CStrRead(path)) IN
    IF lib # NULL
    THEN [ret |-> lib, os |-> [o EXCEPT !.refcount[lib] = @ + 1]]
    ELSE [ret |-> NULL, os |-> [o EXCEPT !.lasterr = code]]

\* GetProcAddress: Some(address) of an exported function, or None with
\* last-error code `code`
GetProcAddress(o, module, name, code) ==
    LET n == CStrRead(name) IN
    IF module \in Libs /\ o.refcount[module] > 0 /\ SymAddr(module, n) # NULL
    THEN [ret |-> SymAddr(module, n), os |-> o]
    ELSE [ret |-> NULL, os |-> [o EXCEPT !.lasterr = code]]

\* FreeLibrary: drops one reference, or returns FALSE with a last-error code
FreeLibrary(o, module, fails, code) ==
    IF module \in Libs /\ o.refcount[module] > 0 /\ ~fails
    THEN [ret |-> 1, os |-> [o EXCEPT !.refcount[module] = @ - 1]]
    ELSE [ret |-> 0, os |-> [o EXCEPT !.lasterr = code]]

GetLastError(o) == o.lasterr

\* ------------------------------------------------------------ error model
NoError == [kind |-> "None", msg |-> <<>>, code |-> 0]
Unknown == [kind |-> "Unknown", msg |-> <<>>, code |-> 0]

Ok(v)  == [ok |-> TRUE, val |-> v, err |-> NoError]
Err(e) == [ok |-> FALSE, val |-> NULL, err |-> e]

\* a message that is a pointer into the loader's diagnostic buffer
InBuffer == <<-1>>

\* a message that keeps the pointer instead of copying the string
PosixSystemMessage_borrowed(msg) == InBuffer

\* PosixSystemMessage::clone_from_str: msg.to_owned()
PosixSystemMessage_clone_from_str(msg) == msg

\* the string of a PosixSystemMessage (self.0), read while the loader's
\* buffer holds buf
Message(err, buf) ==
    IF err.msg = InBuffer THEN CStrFromPtr(buf) ELSE err.msg

\* PosixLinkingError::clone_from_str
clone_from_str(msg) ==
    [kind |-> "System", msg |-> PosixSystemMessage_clone_from_str(msg), code |-> 0]

\* clone_from_ptr with the null test inverted
clone_from_ptr_inverted(msg) ==
    IF IsNull(msg) THEN clone_from_str(<<0>>) ELSE Unknown

\* PosixLinkingError::clone_from_ptr
clone_from_ptr(msg) ==
    IF ~IsNull(msg) THEN clone_from_str(CStrFromPtr(msg.buf)) ELSE Unknown

\* ------------------------------------------------------------ PosixHandle
\* what one operation did: result, new loader state, loader calls in order,
\* the C string and options handed to the loader, the loader's return value
\* and the diagnostic read
Outcome(res, o, calls, carg, opts, osret, diag, code) ==
    [res |-> res, os |-> o, calls |-> calls, carg |-> carg, opts |-> opts,
     osret |-> osret, diag |-> diag, code |-> code]

\* openc wrapping whatever dlopen returned, null included
openc_unchecked(o, path, options) ==
    LET o0  == IF platform = "freebsd" THEN dlerror(o).os ELSE o
        pre == IF platform = "freebsd" THEN <<"dlerror">> ELSE <<>>
        h   == dlopen(o0, path, options)
    IN  Outcome(Ok(h.ret), h.os, pre \o <<"dlopen">>,
                path, options, h.ret, NoDiag, 0)

\* openc making the handle before the null test, so that the error path
\* drops a handle holding null
openc_dropping_on_failure(o, path, options) ==
    LET o0  == IF platform = "freebsd" THEN dlerror(o).os ELSE o
        pre == IF platform = "freebsd" THEN <<"dlerror">> ELSE <<>>
        h   == dlopen(o0, path, options)
    IN  IF h.ret # NULL
        THEN Outcome(Ok(h.ret), h.os, pre \o <<"dlopen">>,
                     path, options, h.ret, NoDiag, 0)
        ELSE LET e == dlerror(h.os)
                 c == dlclose(e.os, h.ret, FALSE)
             IN  Outcome(Err(clone_from_ptr(e.ret)), c.os,
                         pre \o <<"dlopen", "dlerror", "dlclose">>,
                         <<h.ret>>, options, h.ret, e.ret, 0)

\* openc trying dlopen a second time before it gives up
openc_retrying(o, path, options) ==
    LET o0  == IF platform = "freebsd" THEN dlerror(o).os ELSE o
        pre == IF platform = "freebsd" THEN <<"dlerror">> ELSE <<>>
        h   == dlopen(o0, path, options)
        h2  == dlopen(h.os, path, options)
    IN  IF h.ret # NULL
        THEN Outcome(Ok(h.ret), h.os, pre \o <<"dlopen">>,
                     path, options, h.ret, NoDiag, 0)
        ELSE LET e == dlerror(h2.os) IN
             Outcome(Err(clone_from_ptr(e.ret)), e.os,
                     pre \o <<"dlopen", "dlopen", "dlerror">>,
                     path, options, h2.ret, e.ret, 0)

\* PosixHandle::openc
openc(o, path, options) ==
    LET o0  == IF platform = "freebsd" THEN dlerror(o).os ELSE o
        pre == IF platform = "freebsd" THEN <<"dlerror">> ELSE <<>>
        h   == dlopen(o0, path, options)
    IN  IF h.ret # NULL
        THEN Outcome(Ok(h.ret), h.os, pre \o <<"dlopen">>,
                     path, options, h.ret, NoDiag, 0)
        ELSE LET e == dlerror(h.os) IN
             Outcome(Err(clone_from_ptr(e.ret)), e.os,
                     pre \o <<"dlopen", "dlerror">>,
                     path, options, h.ret, e.ret, 0)

\* from_bytes_until_nul cutting at the last nul instead of the first
from_bytes_until_last_nul(bytes) ==
    IF \E i \in 1..Len(bytes) : bytes[i] = 0
    THEN Ok(SubSeq(bytes, 1,
                   CHOOSE i \in 1..Len(bytes) :
                       bytes[i] = 0 /\ \A j \in (i + 1)..Len(bytes) : bytes[j] # 0))
    ELSE Err(NoError)

\* CStr::from_bytes_until_nul: the bytes up to and including the first nul
from_bytes_until_nul(bytes) ==
    LET i == memchr(0, bytes) IN
    IF i # 0 THEN Ok(SubSeq(bytes, 1, i)) ELSE Err(NoError)

\* the inline capacities of the buffers of open and lookup
PATH_ESTIMATED_MAX_LEN == InlineCap

SYMBOL_ESTIMATED_MAX_LEN == InlineCap

\* a buffer that holds no more than its inline capacity
SmallVec_from_slice_truncated(cap, bytes) ==
    [data    |-> SubSeq(bytes, 1, IF Len(bytes) > cap THEN cap ELSE Len(bytes)),
     cap     |-> cap,
     spilled |-> FALSE]

\* SmallVec::<[u8; cap]>::from_slice: a copy of the bytes, inline when they
\* fit the inline capacity and on the heap when they do not
SmallVec_from_slice(cap, bytes) ==
    [data |-> bytes, cap |-> cap, spilled |-> Len(bytes) > cap]

\* SmallVec::push: appends, moving a full inline buffer to the heap
SmallVec_push(v, x) ==
    [v EXCEPT !.data = Append(@, x),
              !.spilled = @ \/ Len(v.data) = v.cap]

\* SmallVec::from_slice(bytes) followed by push(0); the CStr made of it by
\* from_bytes_with_nul_unchecked is the whole buffer
SmallVec_with_nul(cap, bytes) ==
    SmallVec_push(SmallVec_from_slice(cap, bytes), 0).data

\* open asking for immediate binding and global visibility
open_now_global(o, path_bytes) ==
    LET options == {"RTLD_NOW", "RTLD_GLOBAL"}
        cpath   == from_bytes_until_nul(path_bytes)
    IN  IF cpath.ok
        THEN openc(o, cpath.val, options)
        ELSE openc(o, SmallVec_with_nul(PATH_ESTIMATED_MAX_LEN, path_bytes),
                   options)

\* PosixHandle::open
open(o, path_bytes) ==
    LET options == {"RTLD_LAZY", "RTLD_LOCAL"}
        cpath   == from_bytes_until_nul(path_bytes)
    IN  IF cpath.ok
        THEN openc(o, cpath.val, options)
        ELSE openc(o, SmallVec_with_nul(PATH_ESTIMATED_MAX_LEN, path_bytes),
                   options)

\* lookupc variants: with or without the pre-clear, a null address with a
\* null diagnostic taken as success or not, the library released or not
lookupc_variant(o, native, symbol, preclear, nullIsOk, release) ==
    LET o0  == IF preclear THEN dlerror(o).os ELSE o
        pre == IF preclear THEN <<"dlerror">> ELSE <<>>
        p   == dlsym(o0, native, symbol)
        e   == dlerror(p.os)
        end == IF release THEN <<"dlclose">> ELSE <<>>
        fin(x) == IF release THEN dlclose(x, native, FALSE).os ELSE x
    IN  IF p.ret # NULL
        THEN Outcome(Ok(p.ret), fin(p.os), pre \o <<"dlsym">> \o end,
                     IF release THEN <<native>> ELSE symbol,
                     {}, p.ret, NoDiag, 0)
        ELSE IF nullIsOk /\ IsNull(e.ret)
             THEN Outcome(Ok(p.ret), fin(e.os),
                          pre \o <<"dlsym", "dlerror">> \o end,
                          IF release THEN <<native>> ELSE symbol,
                          {}, p.ret, e.ret, 0)
             ELSE Outcome(Err(clone_from_ptr(e.ret)), fin(e.os),
                          pre \o <<"dlsym", "dlerror">> \o end,
                          IF release THEN <<native>> ELSE symbol,
                          {}, p.ret, e.ret, 0)

\* lookupc that releases the library once the symbol is resolved
lookupc_releasing(o, native, symbol) ==
    lookupc_variant(o, native, symbol, platform = "freebsd",
                    platform # "freebsd", TRUE)

\* lookupc that never reads the diagnostic: a null address is a symbol
lookupc_null_is_symbol(o, native, symbol) ==
    LET p == dlsym(o, native, symbol) IN
    Outcome(Ok(p.ret), p.os, <<"dlsym">>, symbol, {}, p.ret, NoDiag, 0)

\* lookupc taking the FreeBSD branch on every target
lookupc_null_is_error(o, native, symbol) ==
    lookupc_variant(o, native, symbol, platform = "freebsd", FALSE, FALSE)

\* lookupc without the FreeBSD pre-clear
lookupc_no_preclear(o, native, symbol) ==
    lookupc_variant(o, native, symbol, FALSE, platform # "freebsd", FALSE)

\* lookupc giving the library up when the symbol cannot be resolved
lookupc_closing_on_failure(o, native, symbol) ==
    LET o0  == IF platform = "freebsd" THEN dlerror(o).os ELSE o
        pre == IF platform = "freebsd" THEN <<"dlerror">> ELSE <<>>
        p   == dlsym(o0, native, symbol)
    IN  IF p.ret # NULL
        THEN Outcome(Ok(p.ret), p.os, pre \o <<"dlsym">>,
                     symbol, {}, p.ret, NoDiag, 0)
        ELSE LET e == dlerror(p.os) IN
             IF platform # "freebsd" /\ IsNull(e.ret)
             THEN Outcome(Ok(p.ret), e.os, pre \o <<"dlsym", "dlerror">>,
                          symbol, {}, p.ret, e.ret, 0)
             ELSE Outcome(Err(clone_from_ptr(e.ret)),
                          dlclose(e.os, native, FALSE).os,
                          pre \o <<"dlsym", "dlerror">>,
                          symbol, {}, p.ret, e.ret, 0)

\* lookupc taking the branch of the other POSIX targets on FreeBSD too: a
\* null address with a null diagnostic is a symbol
lookupc_null_by_diagnostic(o, native, symbol) ==
    lookupc_variant(o, native, symbol, platform = "freebsd", TRUE, FALSE)

\* PosixHandle::lookupc
lookupc(o, native, symbol) ==
    LET o0  == IF platform = "freebsd" THEN dlerror(o).os ELSE o
        pre == IF platform = "freebsd" THEN <<"dlerror">> ELSE <<>>
        p   == dlsym(o0, native, symbol)
    IN  IF p.ret # NULL
        THEN Outcome(Ok(p.ret), p.os, pre \o <<"dlsym">>,
                     symbol, {}, p.ret, NoDiag, 0)
        ELSE LET e == dlerror(p.os) IN
             IF platform # "freebsd" /\ IsNull(e.ret)
             THEN Outcome(Ok(p.ret), e.os, pre \o <<"dlsym", "dlerror">>,
                          symbol, {}, p.ret, e.ret, 0)
             ELSE Outcome(Err(clone_from_ptr(e.ret)), e.os,
                          pre \o <<"dlsym", "dlerror">>,
                          symbol, {}, p.ret, e.ret, 0)

\* PosixHandle::lookup
lookup(o, native, symbol_bytes) ==
    LET csymbol == from_bytes_until_nul(symbol_bytes) IN
    IF csymbol.ok
    THEN lookupc(o, native, csymbol.val)
    ELSE lookupc(o, native,
                 SmallVec_with_nul(SYMBOL_ESTIMATED_MAX_LEN, symbol_bytes))

\* a drop that forgets to unload
PosixHandle_drop_skipped(o, native, fails) ==
    Outcome(Ok(NULL), o, <<>>, <<native>>, {}, NULL, NoDiag, 0)

\* impl Drop for PosixHandle
PosixHandle_drop(o, native, fails) ==
    LET c == dlclose(o, native, fails) IN
    Outcome(Ok(NULL), c.os, <<"dlclose">>, <<native>>, {}, c.ret, NoDiag, 0)

\* ------------------------------------------------------------ Win32Handle
\* from_raw_code without the special case for 0
from_raw_code_all_system(code) ==
    [kind |-> "System", msg |-> <<>>, code |-> code]

\* Win32LinkingError::from_raw_code
from_raw_code(code) ==
    IF code = 0 THEN Unknown
    ELSE [kind |-> "System", msg |-> <<>>, code |-> code]

\* Win32Handle::openwc
openwc(o, path, options, code) ==
    LET h == LoadLibraryExW(o, path, options, code) IN
    IF h.ret # NULL
    THEN Outcome(Ok(h.ret), h.os, <<"LoadLibraryExW">>,
                 path, options, h.ret, NoDiag, 0)
    ELSE LET err == GetLastError(h.os) IN
         Outcome(Err(from_raw_code(err)), h.os,
                 <<"LoadLibraryExW", "GetLastError">>,
                 path, options, h.ret, NoDiag, err)

\* lookupc that hands out whatever GetProcAddress returned
win32_lookupc_unchecked(o, native, symbol, code) ==
    LET p == GetProcAddress(o, native, symbol, code) IN
    Outcome(Ok(p.ret), p.os, <<"GetProcAddress">>, symbol, {}, p.ret, NoDiag, 0)

\* lookupc taking a null address with last-error code 0 for a symbol
win32_lookupc_null_by_code(o, native, symbol, code) ==
    LET p == GetProcAddress(o, native, symbol, code) IN
    IF p.ret # NULL \/ GetLastError(p.os) = 0
    THEN Outcome(Ok(p.ret), p.os, <<"GetProcAddress", "GetLastError">>,
                 symbol, {}, p.ret, NoDiag, GetLastError(p.os))
    ELSE Outcome(Err(from_raw_code(GetLastError(p.os))), p.os,
                 <<"GetProcAddress", "GetLastError">>,
                 symbol, {}, p.ret, NoDiag, GetLastError(p.os))

\* Win32Handle::lookupc
win32_lookupc(o, native, symbol, code) ==
    LET p == GetProcAddress(o, native, symbol, code) IN
    IF p.ret # NULL
    THEN Outcome(Ok(p.ret), p.os, <<"GetProcAddress">>,
                 symbol, {}, p.ret, NoDiag, 0)
    ELSE LET err == GetLastError(p.os) IN
         Outcome(Err(from_raw_code(err)), p.os,
                 <<"GetProcAddress", "GetLastError">>,
                 symbol, {}, p.ret, NoDiag, err)

\* impl Drop for Win32Handle
Win32Handle_drop(o, native, fails, code) ==
    LET c == FreeLibrary(o, native, fails, code) IN
    Outcome(Ok(NULL), c.os, <<"FreeLibrary">>, <<native>>, {}, c.ret, NoDiag, 0)

\* ----------------------------------------------------------------- facade
\* a conversion that drops the platform's message
LinkingError_from_unknown(err) == Unknown

\* LinkingError::from
LinkingError_from(err) ==
    IF err.kind = "System"
    THEN [kind |-> "System", msg |-> err.msg, code |-> err.code]
    ELSE Unknown

\* the facade result of a platform result
Forward(out) ==
    IF out.res.ok THEN out
    ELSE [out EXCEPT !.res = Err(LinkingError_from(out.res.err))]

\* Handle::open
Handle_open(o, path) == Forward(open(o, path))

\* Handle::lookup
Handle_lookup(o, native, symbol) == Forward(lookup(o, native, symbol))

\* ----------------------------------------------------------------- symbol
\* the types T a symbol is read as: a function fn(i32, i32) -> i32 and the
\* opaque pointer *mut c_void
Types == {"fn", "ptr"}

\* a value: its type and its bits
Val(ty, bits) == [ty |-> ty, bits |-> bits]

NoValue == Val("unit", 0)

\* PosixSymbol / Win32Symbol: the stored address; the phantom type T and the
\* phantom lifetime of the owning handle; origin is the address the value
\* was created from
NoSym == [addr |-> NULL, owner |-> 0, ty |-> "none", origin |-> NULL]

\* PosixSymbol::from_ptr / Win32Symbol::from_ptr
from_ptr(ptr, owner, ty) ==
    [addr |-> ptr, owner |-> owner, ty |-> ty, origin |-> ptr]

\* (&self.0 as *const *mut c_void).cast::<T>().read(): the value of T whose
\* bits are the stored address
ReadAs(ty, addr) == Val(ty, addr)

\* the closures applied in this model: id returns the value it is given,
\* call11 calls it as a function with (1, 1)
Fns == {"id", "call11"}

\* the functions behind the addresses: address 1 is sum_of(a, b) = a + b,
\* address 2 is a function returning a * b + 2
CallAt(addr, a, b) == IF addr = 1 THEN a + b ELSE a * b + 2

ApplyFn(f, t) == IF f = "id" THEN t ELSE Val("i32", CallAt(t.bits, 1, 1))

\* a closure can be applied to a value it is typed for; calling a value as
\* a function needs a function behind its address
Applicable(f, sym) ==
    f = "call11" => sym.ty = "fn" /\ sym.addr \in {1, 2}

\* apply that invokes the closure a second time
apply_twice(sym, f) ==
    LET t == ReadAs(sym.ty, sym.addr) IN
    [ret |-> ApplyFn(f, t), invoked |-> <<t, t>>, self |-> sym]

\* PosixSymbol::apply / Win32Symbol::apply: the result of f, the values f
\* was invoked with, and the symbol afterwards (&self)
apply(sym, f) ==
    LET t == ReadAs(sym.ty, sym.addr) IN
    [ret |-> ApplyFn(f, t), invoked |-> <<t>>, self |-> sym]

\* leak that returns the address without reading it as T
leak_untyped(sym) == Val("ptr", sym.addr)

\* PosixSymbol::leak / Win32Symbol::leak
leak(sym) == ReadAs(sym.ty, sym.addr)

\* leak_as_raw that moves the address
leak_as_raw_offset(sym) == Val("ptr", sym.addr + 1)

\* PosixSymbol::leak_as_raw / Win32Symbol::leak_as_raw
leak_as_raw(sym) == Val("ptr", sym.addr)

\* a clone that forgets the address
clone_null(sym) ==
    [addr |-> NULL, owner |-> sym.owner, ty |-> sym.ty, origin |-> sym.origin]

\* impl Clone for PosixSymbol / Win32Symbol
clone(sym) ==
    [addr |-> sym.addr, owner |-> sym.owner, ty |-> sym.ty,
     origin |-> sym.origin]

\* Symbol::apply
Symbol_apply(sym, f) == apply(sym, f)

\* Symbol::leak
Symbol_leak(sym) == leak(sym)

\* Symbol::leak_as_raw
Symbol_leak_as_raw(sym) == leak_as_raw(sym)

\* impl Clone for Symbol
Symbol_clone(sym) == clone(sym)

\* ------------------------------------------------------------------ WCStr
\* u16 units and the slices of them
WideUnits == 0..MaxWide

WideSlices == UNION {[1..k -> WideUnits] : k \in 0..MaxLen}

\* Option<usize>
None == [some |-> FALSE, idx |-> 0]

Some(idx) == [some |-> TRUE, idx |-> idx]

\* a search that returns the last x
wcstr_memchr_last(x, data) ==
    IF \E i \in 0..(Len(data) - 1) : data[i + 1] = x
    THEN Some(CHOOSE i \in 0..(Len(data) - 1) :
                 data[i + 1] = x /\ \A j \in (i + 1)..(Len(data) - 1) : data[j + 1] # x)
    ELSE None

\* memchr of wcstr.rs: the loop returns the first idx with data[idx] = x,
\* None when idx reaches data.len(); idx counts from 0
wcstr_memchr(x, data) ==
    IF \E i \in 0..(Len(data) - 1) : data[i + 1] = x
    THEN Some(CHOOSE i \in 0..(Len(data) - 1) :
                 data[i + 1] = x /\ \A j \in 0..(i - 1) : data[j + 1] # x)
    ELSE None

\* slice::from_raw_parts(ptr, len) on the start of a slice: its first len
\* units
from_raw_parts(data, len) == SubSeq(data, 1, len)

\* struct WCStr([u16])
WCStr(inner) == [inner |-> inner]

NoWCStr == WCStr(<<>>)

\* the error values of the constructors
NoWideError == [kind |-> "None", position |-> 0]

FromBytesUntilNulError == [kind |-> "FromBytesUntilNulError", position |-> 0]

InteriorNul(position) == [kind |-> "InteriorNul", position |-> position]

NotNulTerminated == [kind |-> "NotNulTerminated", position |-> 0]

WideOk(w) == [ok |-> TRUE, w |-> w, err |-> NoWideError]

WideErr(e) == [ok |-> FALSE, w |-> NoWCStr, err |-> e]

\* WCStr::from_wide_with_nul_unchecked: the slice seen as a WCStr
from_wide_with_nul_unchecked(data) == WCStr(data)

\* WCStr::from_wide_until_nul
from_wide_until_nul(data) ==
    LET m == wcstr_memchr(0, data) IN
    IF m.some
    THEN WideOk(from_wide_with_nul_unchecked(from_raw_parts(data, m.idx + 1)))
    ELSE WideErr(FromBytesUntilNulError)

\* from_wide_with_nul that only looks at the last unit
from_wide_with_nul_last_only(data) ==
    IF Len(data) > 0 /\ data[Len(data)] = 0
    THEN WideOk(from_wide_with_nul_unchecked(data))
    ELSE WideErr(NotNulTerminated)

\* WCStr::from_wide_with_nul
from_wide_with_nul(data) ==
    LET m == wcstr_memchr(0, data) IN
    IF m.some /\ m.idx + 1 = Len(data)
    THEN WideOk(from_wide_with_nul_unchecked(data))
    ELSE IF m.some THEN WideErr(InteriorNul(m.idx))
    ELSE WideErr(NotNulTerminated)

\* to_wide returning the terminator too
to_wide_keeping_nul(w) == from_raw_parts(w.inner, Len(w.inner))

\* WCStr::to_wide
to_wide(w) == from_raw_parts(w.inner, Len(w.inner) - 1)

\* WCStr::to_wide_with_nul
to_wide_with_nul(w) == from_raw_parts(w.inner, Len(w.inner))

\* no wide string yet
NoWide ==
    [op |-> "none", ctor |-> "none", data |-> <<>>, res |-> WideErr(NoWideError),
     out |-> <<>>]

\* the state the wide string operations leave alone
NotWide ==
    <<platform, crate, os, handles, syms, closes, last, kept, errbuf, thr>>

\* a constructor has been applied to a slice
Constructed(ctor, data, res) ==
    /\ wc' = [op |-> ctor, ctor |-> ctor, data |-> data, res |-> res,
              out |-> <<>>]
    /\ UNCHANGED NotWide

FromWideUntilNul ==
    \E data \in WideSlices :
        Constructed("from_wide_until_nul", data, from_wide_until_nul(data))

FromWideWithNul ==
    \E data \in WideSlices :
        Constructed("from_wide_with_nul", data, from_wide_with_nul(data))

\* a conversion is applied to the WCStr a constructor returned
ToWide ==
    /\ wc.res.ok
    /\ wc' = [wc EXCEPT !.op = "to_wide", !.out = to_wide(wc.res.w)]
    /\ UNCHANGED NotWide

ToWideWithNul ==
    /\ wc.res.ok
    /\ wc' = [wc EXCEPT !.op = "to_wide_with_nul",
                        !.out = to_wide_with_nul(wc.res.w)]
    /\ UNCHANGED NotWide

\* ---------------------------------------------------------------- actions
NoHandle == [st |-> "none", native |-> NULL]
Gone     == [st |-> "dropped", native |-> NULL]

IsPosix == platform \in {"posix", "freebsd"}

\* a diagnostic an operation leaves pending is, for the operations that
\* follow, one of an earlier operation
Aged(o) == [o EXCEPT !.dlerr.cur = FALSE]

FreeHandle == CHOOSE h \in HandleIds : handles[h].st = "none"
HasFreeHandle == \E h \in HandleIds : handles[h].st = "none"

Live == BagToSet(syms)
HasFreeSym == BagCardinality(syms) < MaxSyms

Count(calls, f) == Cardinality({i \in 1..Len(calls) : calls[i] = f})

Unloads(calls) == Count(calls, "dlclose") + Count(calls, "FreeLibrary")

\* unload calls an operation made on the native value of handle h
UnloadsOf(h, out) ==
    IF Unloads(out.calls) > 0 /\ out.carg = <<handles[h].native>>
    THEN Unloads(out.calls) ELSE 0

\* pend: a diagnostic was pending when the operation started
Last(op, h, name, out) ==
    [op |-> op, h |-> h, name |-> name, res |-> out.res, calls |-> out.calls,
     carg |-> out.carg, opts |-> out.opts, osret |-> out.osret,
     diag |-> out.diag, code |-> out.code, pend |-> ~IsNull(os.dlerr),
     sym |-> NoSym, f |-> "none", ret |-> NoValue, invoked |-> <<>>,
     made |-> NoSym]

\* the bookkeeping shared by every open: a new handle object on Ok
Opening(op, name, out) ==
    /\ os' = Aged(out.os)
    /\ handles' = IF out.res.ok
                  THEN [handles EXCEPT ![FreeHandle] =
                            [st |-> "open", native |-> out.res.val]]
                  ELSE handles
    /\ last' = Last(op, IF out.res.ok THEN FreeHandle ELSE 0, name, out)
    /\ UNCHANGED <<platform, crate, syms, closes>>

Opened(op, name, out) == Opening(op, name, out) /\ UNCHANGED aux

\* the bookkeeping shared by every lookup on handle h: a new symbol on Ok
LookingUp(op, h, name, out) ==
    \E ty \in Types :
        LET made == IF out.res.ok THEN from_ptr(out.res.val, h, ty)
                    ELSE NoSym
        IN  /\ os' = Aged(out.os)
            /\ syms' = IF out.res.ok THEN syms (+) SetToBag({made})
                       ELSE syms
            /\ closes' = [closes EXCEPT ![h] = @ + UnloadsOf(h, out)]
            /\ last' = [Last(op, h, name, out) EXCEPT !.made = made]
            /\ UNCHANGED <<platform, crate, handles>>

LookedUp(op, h, name, out) == LookingUp(op, h, name, out) /\ UNCHANGED aux

RTLD_OPTIONS == {{"RTLD_LAZY", "RTLD_LOCAL"}, {"RTLD_NOW", "RTLD_GLOBAL"}}

LOAD_OPTIONS == {{}, {"LOAD_LIBRARY_SEARCH_SYSTEM32"}}

IsOpen(h) == handles[h].st = "open"

PosixOpenc ==
    /\ crate = "dynlink-posix"
    /\ HasFreeHandle
    /\ \E path \in CStrs, options \in RTLD_OPTIONS :
          Opened("openc", path,
                 openc(os, path, options))

PosixOpen ==
    /\ crate = "dynlink-posix"
    /\ HasFreeHandle
    /\ \E path \in ByteStrs(MaxLen) :
          Opened("open", path, open(os, path))

HandleOpen ==
    /\ crate = "dynlink"
    /\ HasFreeHandle
    /\ \E path \in ByteStrs(MaxLen) :
          Opened("Handle::open", path,
                 Handle_open(os, path))

Win32Openwc ==
    /\ crate = "dynlink-win32"
    /\ HasFreeHandle
    /\ \E path \in CStrs, options \in LOAD_OPTIONS, code \in WinCodes :
          Opened("openwc", path,
                 openwc(os, path, options, code))

PosixLookupc ==
    /\ crate = "dynlink-posix"
    /\ HasFreeSym
    /\ \E h \in HandleIds, symbol \in CStrs :
          /\ IsOpen(h)
          /\ LookedUp("lookupc", h, symbol,
                      lookupc(os, handles[h].native, symbol))

PosixLookup ==
    /\ crate = "dynlink-posix"
    /\ HasFreeSym
    /\ \E h \in HandleIds, symbol \in ByteStrs(MaxLen) :
          /\ IsOpen(h)
          /\ LookedUp("lookup", h, symbol,
                      lookup(os, handles[h].native, symbol))

HandleLookup ==
    /\ crate = "dynlink"
    /\ HasFreeSym
    /\ \E h \in HandleIds, symbol \in ByteStrs(MaxLen) :
          /\ IsOpen(h)
          /\ LookedUp("Handle::lookup", h, symbol,
                      Handle_lookup(os, handles[h].native, symbol))

Win32Lookupc ==
    /\ crate = "dynlink-win32"
    /\ HasFreeSym
    /\ \E h \in HandleIds, symbol \in CStrs, code \in WinCodes :
          /\ IsOpen(h)
          /\ LookedUp("win32 lookupc", h, symbol,
                      win32_lookupc(os, handles[h].native, symbol, code))

\* the bookkeeping shared by every drop of handle h
Dropping(h, out) ==
    /\ os' = Aged(out.os)
    /\ handles' = [handles EXCEPT ![h] = Gone]
    /\ closes' = [closes EXCEPT ![h] = @ + UnloadsOf(h, out)]
    /\ last' = Last("drop", h, <<>>, out)
    /\ UNCHANGED <<platform, crate, syms>>

\* a handle goes out of scope only when no symbol borrowed from it is alive
\* (the lifetime '_ of &self in the result of lookup / lookupc)
Unborrowed(h) == \A s \in Live : s.owner # h

\* a drop the borrow of a live symbol does not prevent
Dropped_while_borrowed(h, out) == Dropping(h, out) /\ UNCHANGED aux

\* a handle is dropped
Dropped(h, out) == Unborrowed(h) /\ Dropping(h, out) /\ UNCHANGED aux

\* a PosixHandle, or the PosixHandle inside a facade Handle, is dropped
PosixDrop ==
    /\ IsPosix
    /\ \E h \in HandleIds, fails \in BOOLEAN :
          /\ IsOpen(h)
          /\ Dropped(h, PosixHandle_drop(os, handles[h].native, fails))

Win32Drop ==
    /\ platform = "windows"
    /\ \E h \in HandleIds, fails \in BOOLEAN, code \in WinCodes :
          /\ IsOpen(h)
          /\ Dropped(h, Win32Handle_drop(os, handles[h].native, fails, code))

\* a symbol operation calls no loader primitive
SymOut == Outcome(Ok(NULL), os, <<>>, <<>>, {}, NULL, NoDiag, 0)

\* the record of an operation on symbol s
SymLast(op, s, f, ret, invoked, made) ==
    [Last(op, s.owner, <<>>, SymOut) EXCEPT
        !.sym = s, !.f = f, !.ret = ret, !.invoked = invoked, !.made = made]

IsFacade == crate = "dynlink"

SymbolApply ==
    \E s \in Live, f \in Fns :
        LET r == IF IsFacade THEN Symbol_apply(s, f) ELSE apply(s, f) IN
        /\ Applicable(f, s)
        /\ syms' = (syms (-) SetToBag({s})) (+) SetToBag({r.self})
        /\ last' = SymLast("apply", s, f, r.ret, r.invoked, NoSym)
        /\ UNCHANGED <<platform, crate, os, handles, closes, aux>>

SymbolLeak ==
    \E s \in Live :
        LET v == IF IsFacade THEN Symbol_leak(s) ELSE leak(s) IN
        /\ syms' = syms (-) SetToBag({s})
        /\ last' = SymLast("leak", s, "none", v, <<>>, NoSym)
        /\ UNCHANGED <<platform, crate, os, handles, closes, aux>>

SymbolLeakAsRaw ==
    \E s \in Live :
        LET v == IF IsFacade THEN Symbol_leak_as_raw(s) ELSE leak_as_raw(s) IN
        /\ syms' = syms (-) SetToBag({s})
        /\ last' = SymLast("leak_as_raw", s, "none", v, <<>>, NoSym)
        /\ UNCHANGED <<platform, crate, os, handles, closes, aux>>

SymbolClone ==
    /\ HasFreeSym
    /\ \E s \in Live :
        LET c == IF IsFacade THEN Symbol_clone(s) ELSE clone(s) IN
        /\ syms' = syms (+) SetToBag({c})
        /\ last' = SymLast("clone", s, "none", NoValue, <<>>, c)
        /\ UNCHANGED <<platform, crate, os, handles, closes, aux>>

\* a symbol goes out of scope: it has no destructor
SymbolDrop ==
    \E s \in Live :
        /\ syms' = syms (-) SetToBag({s})
        /\ last' = SymLast("drop symbol", s, "none", NoValue, <<>>, NoSym)
        /\ UNCHANGED <<platform, crate, os, handles, closes, aux>>

\* no error is held
NoKept == [err |-> NoError, text |-> <<>>]

Threads == 1..MaxThreads

\* a thread that is not inside lookupc
IdleThread ==
    [pc |-> "idle", h |-> 0, symbol |-> <<>>, ptr |-> NULL, dlerr |-> NoDiag,
     res |-> Ok(NULL), mixed |-> FALSE]

NoLast ==
    [op |-> "init", h |-> 0, name |-> <<>>, res |-> Ok(NULL), calls |-> <<>>,
     carg |-> <<>>, opts |-> {}, osret |-> NULL, diag |-> NoDiag, code |-> 0,
     pend |-> FALSE, sym |-> NoSym, f |-> "none", ret |-> NoValue,
     invoked |-> <<>>, made |-> NoSym]

Init ==
    /\ platform \in {"posix", "freebsd", "windows"}
    /\ crate \in IF platform = "windows" THEN {"dynlink-win32"}
                ELSE {"dynlink-posix", "dynlink"}
    /\ \E keeps \in BOOLEAN :
          /\ platform = "windows" => ~keeps
          /\ os = [refcount |-> [l \in Libs |-> 0], dlerr |-> NoDiag,
                   lasterr |-> 0, keeps |-> keeps]
    /\ handles = [h \in HandleIds |-> NoHandle]
    /\ syms = EmptyBag
    /\ closes = [h \in HandleIds |-> 0]
    /\ last = NoLast
    /\ kept = NoKept
    /\ errbuf = <<>>
    /\ thr = [perthread |-> FALSE, at |-> [t \in Threads |-> IdleThread]]
    /\ wc = NoWide

Next ==
    \/ PosixOpenc
    \/ PosixOpen
    \/ HandleOpen
    \/ Win32Openwc
    \/ PosixLookupc
    \/ PosixLookup
    \/ HandleLookup
    \/ Win32Lookupc
    \/ PosixDrop
    \/ Win32Drop
    \/ SymbolApply
    \/ SymbolLeak
    \/ SymbolLeakAsRaw
    \/ SymbolClone
    \/ SymbolDrop

Spec == Init /\ [][Next]_vars

\* ------------------------------------------------- a caller keeping errors
\* the diagnostic an operation made the loader write, <<>> when it wrote
\* none: the one it read, or the one it left pending
Written(out) ==
    IF out.diag.cur THEN out.diag.buf
    ELSE IF out.os.dlerr.cur THEN out.os.dlerr.buf
    ELSE <<>>

\* the caller keeps the error an operation returned (keep) or goes on
\* holding the one it has; a diagnostic the operation made the loader
\* write replaces the content of the loader's buffer
Held(out, keep) ==
    /\ kept' = IF keep /\ ~out.res.ok /\ out.res.err.kind = "System"
               THEN [err |-> out.res.err, text |-> CStrFromPtr(out.diag.buf)]
               ELSE kept
    /\ errbuf' = IF Written(out) # <<>> THEN Written(out) ELSE errbuf
    /\ UNCHANGED <<thr, wc>>

OwnedOpenc ==
    /\ HasFreeHandle
    /\ \E path \in CStrs, options \in RTLD_OPTIONS, keep \in BOOLEAN :
          LET out == openc(os, path, options) IN
          Opening("openc", path, out) /\ Held(out, keep)

OwnedLookupc ==
    /\ HasFreeSym
    /\ \E h \in HandleIds, symbol \in CStrs, keep \in BOOLEAN :
          LET out == lookupc(os, handles[h].native, symbol) IN
          /\ IsOpen(h)
          /\ LookingUp("lookupc", h, symbol, out) /\ Held(out, keep)

OwnedDrop ==
    \E h \in HandleIds, fails \in BOOLEAN :
        LET out == PosixHandle_drop(os, handles[h].native, fails) IN
        /\ IsOpen(h)
        /\ Unborrowed(h)
        /\ Dropping(h, out) /\ Held(out, FALSE)

InitOwned == Init /\ crate = "dynlink-posix"

NextOwned ==
    \/ OwnedOpenc
    \/ OwnedLookupc
    \/ OwnedDrop
    \/ SymbolDrop

SpecOwned == InitOwned /\ [][NextOwned]_vars

\* ------------------------------------------------------- thread markers
HandleTypes == {"PosixHandle", "Win32Handle", "Handle"}
SymbolTypes == {"PosixSymbol", "Win32Symbol", "Symbol"}
Markers     == {"Send", "Sync"}

\* the unsafe impl Send / Sync items of the crates, less the Sync of
\* PosixHandle
UnsafeImpls_without_sync ==
    ({"PosixHandle", "Win32Handle", "PosixSymbol", "Win32Symbol"} \X Markers)
        \ {<<"PosixHandle", "Sync">>}

\* the unsafe impl Send / Sync items of the crates
UnsafeImpls ==
    {"PosixHandle", "Win32Handle", "PosixSymbol", "Win32Symbol"} \X Markers

\* the fields of each type; PlatformHandle and PlatformSymbol are the
\* aliases of platform/unix.rs
Fields(ty) ==
    IF ty \in {"PosixHandle", "Win32Handle"} THEN {"*mut c_void"}
    ELSE IF ty \in {"PosixSymbol", "Win32Symbol"}
         THEN {"*mut c_void", "PhantomData<&T>"}
    ELSE IF ty = "Handle" THEN {"PosixHandle"}
    ELSE IF ty = "Symbol" THEN {"PosixSymbol"}
    ELSE {}

\* a platform type holds a raw pointer, which has neither marker: it has a
\* marker only by an unsafe impl
MarkedPlatform(ty, m) == <<ty, m>> \in UnsafeImpls

\* the compiler derives a marker for a type without an impl of its own when
\* every field has it
Marked(ty, m) ==
    \/ <<ty, m>> \in UnsafeImpls
    \/ /\ ty \in {"Handle", "Symbol"}
       /\ \A f \in Fields(ty) : MarkedPlatform(f, m)

\* ------------------------------------------- threads sharing one handle
\* the loader as thread t sees it: its own pending diagnostic when dlerror
\* keeps one per thread, the process-wide one otherwise
View(t) ==
    IF thr.perthread THEN [os EXCEPT !.dlerr = thr.at[t].dlerr] ELSE os

\* thread t has made a loader call that left the loader as o2 and is now
\* as th; the call fell between the dlsym and the dlerror of every thread
\* that waits to read its diagnostic
Stepped(t, o2, th) ==
    /\ os' = IF thr.perthread THEN [o2 EXCEPT !.dlerr = os.dlerr] ELSE o2
    /\ thr' = [thr EXCEPT !.at =
                 [u \in Threads |->
                    IF u = t
                    THEN [th EXCEPT !.dlerr = IF thr.perthread THEN o2.dlerr
                                              ELSE NoDiag]
                    ELSE [thr.at[u] EXCEPT
                            !.mixed = @ \/ thr.at[u].pc = "null"]]]
    /\ UNCHANGED <<platform, crate, handles, syms, closes, last, kept, errbuf,
                   wc>>

\* lookupc is entered through a shared reference to handle h; on FreeBSD
\* it starts by clearing the diagnostic
MTStart(t) ==
    /\ thr.at[t].pc = "idle"
    /\ Marked("PosixHandle", "Sync")
    /\ \E h \in HandleIds, symbol \in CStrs :
          /\ IsOpen(h)
          /\ Stepped(t,
                     IF platform = "freebsd" THEN dlerror(View(t)).os
                     ELSE View(t),
                     [thr.at[t] EXCEPT !.pc = "start", !.h = h,
                                       !.symbol = symbol, !.mixed = FALSE])

\* the dlsym call of lookupc; a non-null address is returned at once
MTDlsym(t) ==
    /\ thr.at[t].pc = "start"
    /\ LET me == thr.at[t]
           p  == dlsym(View(t), handles[me.h].native, me.symbol)
       IN  Stepped(t, p.os,
                   IF p.ret # NULL
                   THEN [me EXCEPT !.pc = "done", !.ptr = p.ret,
                                   !.res = Ok(p.ret)]
                   ELSE [me EXCEPT !.pc = "null", !.ptr = p.ret])

\* a lookupc that takes every null address for an absent symbol
MTDlerror_unread(t) ==
    /\ thr.at[t].pc = "null"
    /\ Stepped(t, View(t),
               [thr.at[t] EXCEPT !.pc = "done", !.res = Err(Unknown)])

\* the dlerror call of lookupc after a null address
MTDlerror(t) ==
    /\ thr.at[t].pc = "null"
    /\ LET me == thr.at[t]
           e  == dlerror(View(t))
       IN  Stepped(t, e.os,
                   [me EXCEPT
                      !.pc = "done",
                      !.res = IF platform # "freebsd" /\ IsNull(e.ret)
                              THEN Ok(me.ptr)
                              ELSE Err(clone_from_ptr(e.ret))])

\* lookupc has returned; the thread may look up again
MTReturn(t) ==
    /\ thr.at[t].pc = "done"
    /\ thr' = [thr EXCEPT !.at[t] =
                 [IdleThread EXCEPT !.dlerr = thr.at[t].dlerr]]
    /\ UNCHANGED <<platform, crate, os, handles, syms, closes, last, kept,
                   errbuf, wc>>

InitMT ==
    /\ platform \in {"posix", "freebsd"}
    /\ crate = "dynlink-posix"
    /\ \E keeps \in BOOLEAN :
          os = [refcount |-> [l \in Libs |-> 0], dlerr |-> NoDiag,
                lasterr |-> 0, keeps |-> keeps]
    /\ handles = [h \in HandleIds |-> NoHandle]
    /\ syms = EmptyBag
    /\ closes = [h \in HandleIds |-> 0]
    /\ last = NoLast
    /\ kept = NoKept
    /\ errbuf = <<>>
    /\ \E perthread \in BOOLEAN :
          thr = [perthread |-> perthread, at |-> [t \in Threads |-> IdleThread]]
    /\ wc = NoWide

\* the handles are opened before the threads start
NextMT ==
    \/ (\A t \in Threads : thr.at[t].pc = "idle") /\ PosixOpenc
    \/ \E t \in Threads : MTStart(t)
    \/ \E t \in Threads : MTDlsym(t)
    \/ \E t \in Threads : MTDlerror(t)
    \/ \E t \in Threads : MTReturn(t)

SpecMT == InitMT /\ [][NextMT]_vars

\* ------------------------------------------------ wide strings on their own
InitWCStr == Init /\ crate = "dynlink-win32"

NextWCStr ==
    \/ FromWideUntilNul
    \/ FromWideWithNul
    \/ ToWide
    \/ ToWideWithNul

SpecWCStr == InitWCStr /\ [][NextWCStr]_vars

\* ================================================================= claims
OpenOps   == {"openc", "open", "Handle::open", "openwc"}
LookupOps == {"lookupc", "lookup", "Handle::lookup", "win32 lookupc"}

\* the name the caller means: the bytes before the first nul, or all of
\* them when there is none
HasNul(name) == \E i \in 1..Len(name) : name[i] = 0

FirstNul(name) ==
    CHOOSE i \in 1..Len(name) : name[i] = 0 /\ \A j \in 1..(i - 1) : name[j] # 0

NameText(name) ==
    IF HasNul(name) THEN [i \in 1..(FirstNul(name) - 1) |-> name[i]] ELSE name

\* the string a diagnostic buffer holds, terminator included
DiagString(buf) ==
    [i \in 1..(CHOOSE n \in 1..Len(buf) :
                  buf[n] = 0 /\ \A j \in 1..(n - 1) : buf[j] # 0) |-> buf[i]]

\* C1: the unload primitive has been invoked on a handle's native value
\* exactly once when the handle is gone, and not at all before, however
\* many lookups were made on it.
C1_UnloadExactlyOnce ==
    \A h \in HandleIds :
        /\ handles[h].st \in {"none", "open"} => closes[h] = 0
        /\ handles[h].st = "dropped" => closes[h] = 1
        /\ last.op = "drop" /\ last.h = h =>
              /\ handles[h].st = "dropped"
              /\ Unloads(last.calls) = 1

C1_Witness ==
    /\ last.op = "drop"
    /\ handles[last.h].st = "dropped"
    /\ closes[last.h] = 1
    /\ \E h \in HandleIds : handles[h].st = "open"

\* C2: a handle that is open refers to a library that is still mapped, and
\* only the drop of a handle invokes the unload primitive.
C2_OpenHandleStaysMapped ==
    /\ \A h \in HandleIds :
          handles[h].st = "open" =>
              os.refcount[handles[h].native] >=
                  Cardinality({g \in HandleIds :
                                  /\ handles[g].st = "open"
                                  /\ handles[g].native = handles[h].native})
    /\ last.op # "drop" => Unloads(last.calls) = 0

C2_Witness ==
    /\ last.op \in {"leak", "leak_as_raw", "drop symbol", "clone", "apply"}
    /\ handles[last.h].st = "open"
    /\ os.refcount[handles[last.h].native] = 1

\* C3: open returns Ok exactly when the loader returned a non-null handle,
\* the new handle wraps that value, and a path that names no library gives
\* a System or Unknown error.
C3_OpenOkIffLoaded ==
    last.op \in OpenOps =>
        /\ last.res.ok <=> last.osret # NULL
        /\ last.res.ok =>
              /\ handles[last.h].st = "open"
              /\ handles[last.h].native = last.osret
        /\ ~last.res.ok => last.res.err.kind \in {"System", "Unknown"}
        /\ LibAt(NameText(last.name)) = NULL => ~last.res.ok

C3_Witness ==
    /\ last.op \in {"open", "Handle::open", "openwc"}
    /\ LibAt(NameText(last.name)) = NULL
    /\ ~last.res.ok
    /\ last.res.err.kind = "System"

\* C4: looking up a name that is not in the library's symbol table gives an
\* error, never a symbol.
C4_AbsentNameIsError ==
    (/\ last.op \in LookupOps
     /\ ~HasSym(handles[last.h].native, NameText(last.name)))
        => /\ ~last.res.ok
           /\ last.res.err.kind \in {"System", "Unknown"}

C4_Witness ==
    /\ last.op \in LookupOps
    /\ ~HasSym(handles[last.h].native, NameText(last.name))
    /\ ~last.res.ok
    /\ \E h \in HandleIds : handles[h].st = "dropped"

\* C5: on POSIX a failing open or lookup maps a null diagnostic to Unknown
\* and a non-null one to System with a copy of the diagnostic string.
C5_PosixErrorFromDiagnostic ==
    (/\ crate = "dynlink-posix"
     /\ last.op \in OpenOps \cup LookupOps
     /\ ~last.res.ok)
        => /\ Len(last.calls) > 0 /\ last.calls[Len(last.calls)] = "dlerror"
           /\ IsNull(last.diag) => last.res.err = Unknown
           /\ ~IsNull(last.diag) =>
                 /\ last.res.err.kind = "System"
                 /\ last.res.err.msg = DiagString(last.diag.buf)

C5_Witness ==
    /\ crate = "dynlink-posix"
    /\ last.op \in LookupOps
    /\ ~last.res.ok
    /\ IsNull(last.diag)
    /\ last.res.err.kind = "Unknown"

\* C6: on POSIX targets other than FreeBSD, a null address from dlsym is a
\* symbol holding null when the diagnostic read next is null and an error
\* System(diagnostic) otherwise; a non-null address is returned without
\* the diagnostic being read.
C6_NullAddressByDiagnostic ==
    (/\ platform = "posix"
     /\ crate = "dynlink-posix"
     /\ last.op \in LookupOps)
        => /\ last.osret # NULL =>
                 /\ last.res = Ok(last.osret)
                 /\ last.calls = <<"dlsym">>
           /\ last.osret = NULL =>
                 /\ last.calls = <<"dlsym", "dlerror">>
                 /\ IsNull(last.diag) => last.res = Ok(NULL)
                 /\ ~IsNull(last.diag) =>
                       /\ ~last.res.ok
                       /\ last.res.err.kind = "System"
                       /\ last.res.err.msg = DiagString(last.diag.buf)
           /\ last.res.ok =>
                 /\ last.made.addr = last.osret
                 /\ last.made.owner = last.h
                 /\ BagIn(last.made, syms)

C6_Witness ==
    /\ platform = "posix"
    /\ crate = "dynlink-posix"
    /\ last.op \in LookupOps
    /\ last.osret = NULL
    /\ IsNull(last.diag)
    /\ last.res = Ok(NULL)

\* C7: on POSIX targets other than FreeBSD, the diagnostic an open or a
\* lookup reads after its dlopen / dlsym returned null was produced by that
\* very call, never by an earlier loader call.
C7_DiagnosticIsFresh ==
    (/\ platform = "posix"
     /\ last.op \in OpenOps \cup LookupOps
     /\ ~IsNull(last.diag))
        => last.diag.cur

\* C8: on FreeBSD every openc and lookupc calls dlerror before dlopen /
\* dlsym, and the diagnostic read after a failure is never one that was
\* pending when the operation started.
C8_FreeBsdPreClear ==
    (/\ platform = "freebsd"
     /\ last.op \in OpenOps \cup LookupOps)
        => /\ Len(last.calls) >= 2
           /\ last.calls[1] = "dlerror"
           /\ last.calls[2] \in {"dlopen", "dlsym"}
           /\ ~IsNull(last.diag) => last.diag.cur

C8_Witness ==
    /\ platform = "freebsd"
    /\ last.op \in LookupOps
    /\ last.pend
    /\ last.osret = NULL
    /\ IsNull(last.diag)

\* C9: a lookup of a name with a nul at index i hands the loader the C
\* string name[0..i] and returns what lookupc returns for it; the bytes
\* after the first nul play no part.
C9_FirstTerminatorWins ==
    [][(/\ last'.op = "lookup"
        /\ HasNul(last'.name))
          => LET c   == [i \in 1..FirstNul(last'.name) |-> last'.name[i]]
                 out == lookupc(os, handles[last'.h].native, c)
             IN  /\ last'.carg = c
                 /\ last'.res = out.res
                 /\ os' = Aged(out.os)]_vars

C9_Witness ==
    /\ last.op = "lookup"
    /\ last.name = <<1, 0, 1>>
    /\ last.res.ok
    /\ last.res.val = SymAddr(handles[last.h].native, <<1>>)

\* C10: on Windows a failing openwc or lookupc reads the last-error code
\* right after the failing call; 0 gives Unknown and a nonzero code c gives
\* System(c).
C10_Win32ErrorFromCode ==
    (/\ crate = "dynlink-win32"
     /\ last.op \in OpenOps \cup LookupOps
     /\ ~last.res.ok)
        => /\ Len(last.calls) = 2
           /\ last.calls[1] \in {"LoadLibraryExW", "GetProcAddress"}
           /\ last.calls[2] = "GetLastError"
           /\ last.code = os.lasterr
           /\ last.code = 0 => last.res.err = Unknown
           /\ last.code # 0 =>
                 last.res.err = [kind |-> "System", msg |-> <<>>, code |-> last.code]

C10_Witness ==
    /\ crate = "dynlink-win32"
    /\ last.op = "win32 lookupc"
    /\ ~last.res.ok
    /\ last.code = 127
    /\ last.res.err.kind = "System"
    /\ last.res.err.code = 127

SymbolUses == {"apply", "clone"}

\* the value of T whose bits are address a
ValueOf(ty, a) == [ty |-> ty, bits |-> a]

\* C11: apply(f) on a symbol holding address A invokes f exactly once, with
\* the value of T whose bits are A, returns the result of f and leaves the
\* symbol as it was, so that applying again gives the same outcome; for
\* sum_of(a, b) = a + b, applying it to (1, 1) returns 2.
C11_ApplyInvokesOnce ==
    /\ [](last.op = "apply" =>
            /\ last.invoked = <<ValueOf(last.sym.ty, last.sym.origin)>>
            /\ last.ret = ApplyFn(last.f, ValueOf(last.sym.ty, last.sym.origin))
            /\ BagIn(last.sym, syms)
            /\ (last.f = "call11" /\ last.sym.origin = SymAddr(1, <<1>>))
                   => last.ret = ValueOf("i32", 2))
    /\ [][(/\ last.op = "apply" /\ last'.op = "apply"
            /\ last'.sym = last.sym /\ last'.f = last.f)
              => /\ last'.ret = last.ret
                 /\ syms' = syms]_vars

C11_Witness ==
    /\ last.op = "apply"
    /\ last.f = "call11"
    /\ last.sym.origin = SymAddr(1, <<1>>)
    /\ last.ret = ValueOf("i32", 2)
    /\ BagIn(last.sym, syms)

\* C12: leak_as_raw on a symbol created from address A returns exactly A,
\* null included, on the platform symbol and on the facade symbol.
C12_LeakAsRawIsIdentity ==
    last.op = "leak_as_raw" =>
        last.ret = ValueOf("ptr", last.sym.origin)

C12_Witness ==
    /\ last.op = "leak_as_raw"
    /\ IsFacade
    /\ last.sym.origin = NULL
    /\ last.ret = ValueOf("ptr", NULL)

\* C13: leak returns the value of T that apply passes to its closure; for
\* T the opaque pointer it is the address itself, equal to leak_as_raw.
C13_LeakIsAppliedValue ==
    last.op = "leak" =>
        /\ <<last.ret>> = apply(last.sym, "id").invoked
        /\ last.ret = ValueOf(last.sym.ty, last.sym.origin)
        /\ last.sym.ty = "ptr" =>
              /\ last.ret.bits = last.sym.origin
              /\ last.ret = leak_as_raw(last.sym)

C13_Witness ==
    /\ last.op = "leak"
    /\ last.sym.ty = "ptr"
    /\ last.sym.origin # NULL
    /\ last.ret = ValueOf("ptr", last.sym.origin)

\* C14: a clone holds the same address as the original: the same closure
\* applied to both gives the same result and leak_as_raw of both is
\* equal; cloning calls no loader primitive and changes neither the
\* original nor the handle.
C14_CloneSameAddress ==
    [][last'.op = "clone" =>
          /\ last'.made.addr = last'.sym.addr
          /\ last'.made.addr = last'.sym.origin
          /\ \A f \in Fns :
                Applicable(f, last'.sym) =>
                    apply(last'.made, f).ret = apply(last'.sym, f).ret
          /\ leak_as_raw(last'.made) = leak_as_raw(last'.sym)
          /\ BagIn(last'.sym, syms)
          /\ syms' = syms (+) SetToBag({last'.made})
          /\ last'.calls = <<>>
          /\ os' = os /\ handles' = handles /\ closes' = closes]_vars

C14_Witness ==
    /\ last.op = "clone"
    /\ last.sym.addr # NULL
    /\ last.made = last.sym
    /\ CopiesIn(last.sym, syms) = 2
    /\ handles[last.sym.owner].st = "open"

\* C15: a symbol that was not leaked is used (apply, clone) only while the
\* handle that produced it is open: a handle is not discarded while one of
\* its symbols is alive.
C15_NoUseAfterDiscard ==
    /\ \A s \in Live : handles[s.owner].st = "open"
    /\ last.op \in SymbolUses =>
          /\ handles[last.sym.owner].st = "open"
          /\ os.refcount[handles[last.sym.owner].native] >= 1

C15_Witness ==
    /\ last.op \in SymbolUses
    /\ handles[last.sym.owner].st = "open"
    /\ \E g \in HandleIds : handles[g].st = "dropped"

\* the facade result agrees with the platform result p
SameOutcome(res, p) ==
    /\ res.ok <=> p.ok
    /\ p.ok => res.val = p.val
    /\ ~p.ok =>
          /\ res.err.kind = p.err.kind
          /\ p.err.kind = "System" => res.err.msg = p.err.msg
          /\ p.err.kind = "Unknown" => res.err = Unknown

\* C16: the facade Handle::open and Handle::lookup return Ok exactly when
\* the platform handle's open / lookup does, and a platform error keeps
\* its variant: System(m) stays System(m), Unknown stays Unknown.
C16_FacadeForwards ==
    [][/\ last'.op = "Handle::open" =>
              SameOutcome(last'.res, open(os, last'.name).res)
       /\ last'.op = "Handle::lookup" =>
              SameOutcome(last'.res,
                          lookup(os, handles[last'.h].native, last'.name).res)
      ]_vars

C16_Witness ==
    /\ last.op = "Handle::lookup"
    /\ ~last.res.ok
    /\ last.res.err.kind = "System"
    /\ last.res.err.msg = DiagString(DlsymDiag)
    /\ \E g \in HandleIds : handles[g].st = "open"

\* the loader primitive the last operation invoked has failed
PrimitiveFailed ==
    \/ /\ last.op \in OpenOps
       /\ last.osret = NULL
    \/ /\ last.op \in LookupOps
       /\ last.osret = NULL
       /\ IsPosix => ~HasSym(handles[last.h].native, NameText(last.carg))
    \/ /\ last.op = "drop"
       /\ IF IsPosix THEN last.osret # 0 ELSE last.osret = 0

\* C17 as stated: every failure of a loader primitive, the unload
\* primitives dlclose and FreeLibrary included, reaches the caller as an
\* Err value.
C17_EveryFailureSurfaced ==
    PrimitiveFailed => ~last.res.ok

\* C17, amended: every failure of dlopen, dlsym, LoadLibraryExW or
\* GetProcAddress is returned as Err by the operation that invoked it,
\* with the diagnostic read right after the failing call; a failure of
\* dlclose or FreeLibrary in a handle's destructor is not reported.
C17_OpenLookupFailureSurfaced ==
    /\ (last.op \in OpenOps \cup LookupOps /\ PrimitiveFailed) =>
          /\ ~last.res.ok
          /\ last.res.err.kind \in {"System", "Unknown"}
          /\ last.calls[Len(last.calls)] \in {"dlerror", "GetLastError"}
          /\ last.calls[Len(last.calls) - 1] \in
                {"dlopen", "dlsym", "LoadLibraryExW", "GetProcAddress"}
    /\ last.op = "drop" =>
          /\ last.res = Ok(NULL)
          /\ last.calls \in {<<"dlclose">>, <<"FreeLibrary">>}

C17_Witness ==
    /\ last.op = "drop"
    /\ PrimitiveFailed
    /\ last.res.ok
    /\ os.refcount[last.carg[1]] >= 1

\* C18: the error a failed open or lookup returned owns its diagnostic:
\* its message is the diagnostic of the call that failed, whatever later
\* loader calls have written to the loader's diagnostic buffer.
C18_ErrorOwnsDiagnostic ==
    kept.err.kind = "System" =>
        /\ Message(kept.err, errbuf) = kept.text
        /\ kept.text \in {DiagString(DlopenDiag), DiagString(DlsymDiag),
                          DiagString(DlcloseDiag)}

C18_Witness ==
    /\ kept.err.kind = "System"
    /\ kept.text = DiagString(DlsymDiag)
    /\ kept.err.msg = kept.text
    /\ errbuf = DlopenDiag
    /\ last.op = "openc"

\* the result of the lookup of thread t had it run with no other thread
Alone(t) ==
    lookupc([os EXCEPT !.dlerr = NoDiag], handles[thr.at[t].h].native,
            thr.at[t].symbol).res

\* C19 as stated: with one handle shared by threads that look up
\* concurrently, every lookup returns what it would return run alone,
\* whether the loader keeps its diagnostic per thread or per process.
C19_LookupAsIfAlone ==
    \A t \in Threads : thr.at[t].pc = "done" => thr.at[t].res = Alone(t)

\* C19, amended: when the loader keeps the dlerror diagnostic per thread,
\* every lookup on a handle shared by concurrent threads returns what it
\* would return run alone: the diagnostic it reads after a null dlsym is
\* the one of its own call.
C19_LookupAsIfAlonePerThread ==
    thr.perthread =>
        \A t \in Threads :
            /\ thr.at[t].pc = "done" => thr.at[t].res = Alone(t)
            /\ thr.at[t].pc = "null" =>
                  (IsNull(thr.at[t].dlerr) <=>
                      HasSym(handles[thr.at[t].h].native,
                             NameText(thr.at[t].symbol)))

C19_Witness ==
    /\ thr.perthread
    /\ \E t \in Threads :
          /\ thr.at[t].pc = "done"
          /\ thr.at[t].mixed
          /\ ~thr.at[t].res.ok
          /\ thr.at[t].res.err.kind = "System"
          /\ \E u \in Threads \ {t} : thr.at[u].pc = "done" /\ thr.at[u].mixed

\* C20: the handle types and the symbol types each have both markers:
\* Send (may be moved to another thread) and Sync (may be accessed from
\* several threads through a shared reference); a handle that threads
\* look up through at the same time has Sync.
C20_SendAndSync ==
    /\ \A ty \in HandleTypes \cup SymbolTypes, m \in Markers : Marked(ty, m)
    /\ \A t \in Threads :
          thr.at[t].pc # "idle" => Marked("PosixHandle", "Sync")

C20_Witness ==
    /\ Marked("PosixHandle", "Sync")
    /\ \E t, u \in Threads :
          /\ t # u
          /\ thr.at[t].pc \in {"start", "null"}
          /\ thr.at[u].pc \in {"start", "null"}
          /\ thr.at[t].h = thr.at[u].h

\* C21: on FreeBSD a null address from dlsym always makes a lookup fail,
\* with System(diagnostic) when the diagnostic read next is non-null and
\* Unknown when it is null; no symbol holding the null address is made.
C21_FreeBsdNullIsError ==
    (/\ platform = "freebsd"
     /\ last.op \in LookupOps
     /\ last.osret = NULL)
        => /\ ~last.res.ok
           /\ last.calls = <<"dlerror", "dlsym", "dlerror">>
           /\ IsNull(last.diag) => last.res.err = Unknown
           /\ ~IsNull(last.diag) =>
                 /\ last.res.err.kind = "System"
                 /\ last.res.err.msg = DiagString(last.diag.buf)
           /\ last.made = NoSym
           /\ \A s \in Live : s.origin # NULL

C21_Witness ==
    /\ platform = "freebsd"
    /\ crate = "dynlink-posix"
    /\ last.op \in LookupOps
    /\ HasSym(handles[last.h].native, NameText(last.name))
    /\ last.osret = NULL
    /\ IsNull(last.diag)
    /\ last.res = Err(Unknown)

\* C22: on Windows lookupc returns Ok exactly when GetProcAddress returned
\* a non-null address, and the symbol holds that address; with no address
\* the result is an error, Unknown when the last-error code is 0, and no
\* symbol holding the null address is made.
C22_Win32OkIffAddress ==
    (/\ crate = "dynlink-win32"
     /\ last.op = "win32 lookupc")
        => /\ last.res.ok <=> last.osret # NULL
           /\ last.res.ok =>
                 /\ last.res.val = last.osret
                 /\ last.made.addr = last.osret
                 /\ last.made.owner = last.h
                 /\ BagIn(last.made, syms)
           /\ ~last.res.ok =>
                 /\ last.made = NoSym
                 /\ last.res.err = from_raw_code(last.code)
                 /\ last.code = 0 => last.res.err = Unknown
           /\ \A s \in Live : s.origin # NULL

C22_Witness ==
    /\ crate = "dynlink-win32"
    /\ last.op = "win32 lookupc"
    /\ last.osret = NULL
    /\ last.code = 0
    /\ last.res = Err(Unknown)

\* C23: open(path), and the facade's open, do what openc(c, RTLD_LAZY |
\* RTLD_LOCAL) does, c being the bytes of the path before its first nul
\* (all of them when there is none) and one terminator; RTLD_NOW and
\* RTLD_GLOBAL are never among the options.
C23_OpenIsOpencLazyLocal ==
    [][last'.op \in {"open", "Handle::open"}
          => LET c   == NameText(last'.name) \o <<0>>
                 out == openc(os, c, {"RTLD_LAZY", "RTLD_LOCAL"})
             IN  /\ last'.carg = c
                 /\ last'.opts = {"RTLD_LAZY", "RTLD_LOCAL"}
                 /\ last'.opts \cap {"RTLD_NOW", "RTLD_GLOBAL"} = {}
                 /\ last'.calls = out.calls
                 /\ last'.osret = out.osret
                 /\ SameOutcome(last'.res, out.res)
                 /\ last'.op = "open" => last'.res = out.res
                 /\ os' = Aged(out.os)
                 /\ out.res.ok =>
                       /\ last'.h \in HandleIds
                       /\ handles[last'.h].st = "none"
                       /\ handles'[last'.h] =
                             [st |-> "open", native |-> out.res.val]
                 /\ ~out.res.ok => handles' = handles]_vars

C23_Witness ==
    /\ last.op = "open"
    /\ last.name = <<1, 0, 1>>
    /\ last.carg = <<1, 0>>
    /\ last.opts = {"RTLD_LAZY", "RTLD_LOCAL"}
    /\ last.res.ok
    /\ handles[last.h] = [st |-> "open", native |-> LibAt(<<1>>)]

\* C24: for a name or path without a nul, of any length from the empty
\* one to those longer than the estimated maximum, lookup and open hand
\* the loader the bytes of the name followed by one terminator, and return
\* what lookupc / openc return for that C string.
C24_WholeNamePassed ==
    [][~HasNul(last'.name)
          => LET c == last'.name \o <<0>> IN
             /\ last'.op \in {"open", "Handle::open"} =>
                   /\ last'.carg = c
                   /\ Count(last'.calls, "dlopen") = 1
                   /\ SameOutcome(last'.res,
                                  openc(os, c, {"RTLD_LAZY", "RTLD_LOCAL"}).res)
             /\ last'.op \in {"lookup", "Handle::lookup"} =>
                   /\ last'.carg = c
                   /\ Count(last'.calls, "dlsym") = 1
                   /\ SameOutcome(last'.res,
                                  lookupc(os, handles[last'.h].native, c).res)
      ]_vars

C24_Witness ==
    /\ last.op = "lookup"
    /\ ~HasNul(last.name)
    /\ Len(last.name) > SYMBOL_ESTIMATED_MAX_LEN
    /\ last.carg = last.name \o <<0>>
    /\ Count(last.calls, "dlsym") = 1

\* the unload calls made on the native values of the handles, and the opens
\* that returned a handle
UnloadCalls ==
    Cardinality(UNION {{h} \X (1..closes[h]) : h \in HandleIds})

OkOpens == Cardinality({h \in HandleIds : handles[h].st # "none"})

\* C25: a failed open makes no handle and no unload call; the unload calls
\* made are never more than the opens that returned Ok, each is made by a
\* drop on a non-null native value, and no handle holds null.
C25_NoUnloadWithoutOpen ==
    /\ UnloadCalls <= OkOpens
    /\ Unloads(last.calls) > 0 =>
          /\ last.op = "drop"
          /\ Unloads(last.calls) = 1
          /\ Len(last.carg) = 1
          /\ last.carg[1] # NULL
          /\ closes[last.h] = 1
    /\ (last.op \in OpenOps /\ ~last.res.ok) =>
          /\ last.h = 0
          /\ last.osret = NULL
          /\ Unloads(last.calls) = 0
    /\ \A h \in HandleIds : handles[h].st = "open" => handles[h].native # NULL
    /\ \A h \in HandleIds : handles[h].st = "none" => closes[h] = 0

C25_Witness ==
    /\ last.op \in OpenOps
    /\ ~last.res.ok
    /\ OkOpens = 1
    /\ UnloadCalls = 1
    /\ \E h \in HandleIds : handles[h].st = "none"

\* what a lookup of the C string n on the native handle returns with the
\* loader as o
Resolves(o, native, n) ==
    IF IsPosix THEN lookupc(o, native, n).res
    ELSE win32_lookupc(o, native, n, 127).res

\* C26: a failed lookup leaves its handle as it was and open: same native
\* value, no unload call, the library as mapped as before, no symbol made;
\* every name that resolves on the handle resolves right after the failed
\* lookup, to the same address.
C26_FailedLookupLeavesHandle ==
    [][(/\ last'.op \in LookupOps
        /\ ~last'.res.ok)
          => LET native == handles[last'.h].native IN
             /\ handles' = handles
             /\ handles'[last'.h].st = "open"
             /\ closes' = closes
             /\ syms' = syms
             /\ Unloads(last'.calls) = 0
             /\ os'.refcount = os.refcount
             /\ \A n \in CStrs :
                   LET was == Resolves([os EXCEPT !.dlerr = NoDiag], native, n)
                   IN  was.ok =>
                          /\ Resolves(os', native, n) = was
                          /\ was.val = SymAddr(native, CStrRead(n))]_vars

C26_Witness ==
    /\ last.op \in LookupOps
    /\ ~last.res.ok
    /\ handles[last.h].st = "open"
    /\ closes[last.h] = 0
    /\ \E n \in CStrs :
          /\ Resolves(os, handles[last.h].native, n).ok
          /\ Resolves(os, handles[last.h].native, n).val # NULL

\* C27: on the POSIX targets an open calls dlopen once and a lookup calls
\* dlsym once; dlerror is read only when that call returned null, as the
\* very next loader call, apart from the call FreeBSD starts with.
C27_NoRetry ==
    (/\ IsPosix
     /\ last.op \in OpenOps \cup LookupOps)
        => LET prim == IF last.op \in OpenOps THEN "dlopen" ELSE "dlsym"
               pre  == IF platform = "freebsd" THEN <<"dlerror">> ELSE <<>>
           IN  /\ Count(last.calls, prim) = 1
               /\ last.osret # NULL => last.calls = pre \o <<prim>>
               /\ last.osret = NULL => last.calls = pre \o <<prim, "dlerror">>
               /\ IsNull(last.diag) \/ last.osret = NULL

C27_Witness ==
    /\ platform = "freebsd"
    /\ last.op = "openc"
    /\ last.pend
    /\ last.osret = NULL
    /\ last.calls = <<"dlerror", "dlopen", "dlerror">>
    /\ ~last.res.ok

\* C28: from_wide_until_nul returns, for a slice with a 0, the slice up to
\* and including its first 0, which so has one 0, at its end; for a slice
\* without a 0 it returns FromBytesUntilNulError.
C28_UntilNulIsFirstPrefix ==
    wc.ctor = "from_wide_until_nul"
        => /\ HasNul(wc.data) =>
                 /\ wc.res.ok
                 /\ wc.res.w.inner = [i \in 1..FirstNul(wc.data) |-> wc.data[i]]
                 /\ Cardinality({i \in 1..Len(wc.res.w.inner) :
                                    wc.res.w.inner[i] = 0}) = 1
                 /\ wc.res.w.inner[Len(wc.res.w.inner)] = 0
           /\ ~HasNul(wc.data) =>
                 /\ ~wc.res.ok
                 /\ wc.res.err = FromBytesUntilNulError

C28_Witness ==
    /\ wc.op = "from_wide_until_nul"
    /\ wc.data = <<1, 0, 0>>
    /\ wc.res = WideOk(WCStr(<<1, 0>>))

\* C29: from_wide_with_nul returns Ok, holding the whole slice, exactly
\* when the first 0 of the slice is its last unit; InteriorNul with the
\* index (from 0) of the first 0 when a 0 comes before the last unit; and
\* NotNulTerminated when the slice, empty or not, has no 0.
C29_WithNulChecksFirstNul ==
    wc.ctor = "from_wide_with_nul"
        => /\ wc.res.ok <=> (HasNul(wc.data) /\ FirstNul(wc.data) = Len(wc.data))
           /\ wc.res.ok => wc.res.w.inner = wc.data
           /\ (HasNul(wc.data) /\ FirstNul(wc.data) < Len(wc.data)) =>
                 wc.res = WideErr(InteriorNul(FirstNul(wc.data) - 1))
           /\ ~HasNul(wc.data) => wc.res = WideErr(NotNulTerminated)

C29_Witness ==
    /\ wc.op = "from_wide_with_nul"
    /\ wc.data = <<1, 0, 0>>
    /\ wc.res = WideErr(InteriorNul(1))

\* C30: for a WCStr built by from_wide_with_nul from the slice d,
\* to_wide_with_nul returns d and to_wide returns d without its last unit:
\* a slice without a 0, of length len(d) - 1.
C30_RoundTrip ==
    (/\ wc.ctor = "from_wide_with_nul"
     /\ wc.res.ok)
        => /\ wc.op = "to_wide_with_nul" => wc.out = wc.data
           /\ wc.op = "to_wide" =>
                 /\ wc.out = [i \in 1..(Len(wc.data) - 1) |-> wc.data[i]]
                 /\ wc.out \o <<0>> = wc.data
                 /\ ~HasNul(wc.out)
                 /\ Len(wc.out) = Len(wc.data) - 1

C30_Witness ==
    /\ wc.ctor = "from_wide_with_nul"
    /\ wc.op = "to_wide"
    /\ wc.data = <<1, 2, 0>>
    /\ wc.out = <<1, 2>>
====
